---- MODULE Spec2Model ----
(***************************************************************************)
(* Model of the dairy-warehouse inventory application (app.py): the        *)
(* request handlers for stock instances, areas, the catalog and sales,     *)
(* behind the session check of login_necessario.  Form values are texts    *)
(* (sequences of one-character strings) so that int(), strip(), upper()    *)
(* and the date parsing of the handlers are computed, not assumed.         *)
(***************************************************************************)
EXTENDS Integers, Sequences, FiniteSets, TLC

(***************************************************************************)
(* Bounds of the model.                                                    *)
(***************************************************************************)
\* largest quantity a form may carry
MaxQtd == 2
\* largest quantity one stock instance may hold (merges beyond it are not explored)
MaxEstoque == 3
\* number of stock-instance ids the store hands out
MaxInstancias == 2
\* number of stock instances in the stores the reports page is asked about
MaxRelatorio == 3
\* number of sale records the ledger may hold
MaxVendas == 2
\* units the stepwise sales may take out of stock in all
MaxBaixas == 2

(***************************************************************************)
(* Texts and the conversions the handlers apply to form values.            *)
(***************************************************************************)
Minusculas == <<"a","b","c","d","e","f","g","h","i","j","k","l","m",
                "n","o","p","q","r","s","t","u","v","w","x","y","z">>
Maiusculas == <<"A","B","C","D","E","F","G","H","I","J","K","L","M",
                "N","O","P","Q","R","S","T","U","V","W","X","Y","Z">>
Algarismos == <<"0","1","2","3","4","5","6","7","8","9">>

\* str.upper() on one character
UpperChar(c) ==
    IF \E i \in 1..Len(Minusculas) : Minusculas[i] = c
    THEN Maiusculas[CHOOSE i \in 1..Len(Minusculas) : Minusculas[i] = c]
    ELSE c

\* str.upper()
Upper(s) == [i \in 1..Len(s) |-> UpperChar(s[i])]

RECURSIVE LStrip(_)
LStrip(s) == IF Len(s) > 0 /\ Head(s) = " " THEN LStrip(Tail(s)) ELSE s

RECURSIVE RStrip(_)
RStrip(s) == IF Len(s) > 0 /\ s[Len(s)] = " " THEN RStrip(SubSeq(s, 1, Len(s) - 1)) ELSE s

\* str.strip()
Strip(s) == RStrip(LStrip(s))

\* truth value of a form value: None and "" are falsy (the handlers' all([...]))
Presente(s) == Len(s) > 0

EhAlgarismo(c) == \E i \in 1..Len(Algarismos) : Algarismos[i] = c

ValorAlgarismo(c) == (CHOOSE i \in 1..Len(Algarismos) : Algarismos[i] = c) - 1

RECURSIVE ValorDecimal(_)
ValorDecimal(s) ==
    IF Len(s) = 0 THEN 0
    ELSE 10 * ValorDecimal(SubSeq(s, 1, Len(s) - 1)) + ValorAlgarismo(s[Len(s)])

SoAlgarismos(s) == Len(s) > 0 /\ \A i \in 1..Len(s) : EhAlgarismo(s[i])

\* int(text): surrounding blanks and one sign are accepted, anything else raises ValueError
ParseInt(s) ==
    LET t == Strip(s)
        sinal == Len(t) > 0 /\ Head(t) \in {"-", "+"}
        corpo == IF sinal THEN Tail(t) ELSE t
    IN  IF SoAlgarismos(corpo)
        THEN [ok |-> TRUE,
              val |-> IF sinal /\ Head(t) = "-" THEN 0 - ValorDecimal(corpo) ELSE ValorDecimal(corpo)]
        ELSE [ok |-> FALSE, val |-> 0]

RECURSIVE Digitos(_)
\* str(n) for n >= 0
Digitos(n) == IF n < 10 THEN <<Algarismos[n + 1]>> ELSE Digitos(n \div 10) \o <<Algarismos[(n % 10) + 1]>>

RECURSIVE Partes(_, _)
\* text.split(sep)
Partes(s, sep) ==
    IF \E i \in 1..Len(s) : s[i] = sep
    THEN LET k == CHOOSE i \in 1..Len(s) : s[i] = sep /\ \A j \in 1..(i - 1) : s[j] # sep
         IN  <<SubSeq(s, 1, k - 1)>> \o Partes(SubSeq(s, k + 1, Len(s)), sep)
    ELSE <<s>>

Bissexto(a) == (a % 4 = 0 /\ a % 100 # 0) \/ a % 400 = 0

DiasNoMes(a, m) ==
    IF m = 2 THEN (IF Bissexto(a) THEN 29 ELSE 28)
    ELSE IF m \in {4, 6, 9, 11} THEN 30 ELSE 31

\* datetime.strptime(text, '%Y-%m-%d').date(): four-digit year, one- or two-digit
\* month and day, a day the month has; anything else raises ValueError
ParseData(s) ==
    LET p == Partes(s, "-")
        forma == /\ Len(p) = 3
                 /\ Len(p[1]) = 4 /\ SoAlgarismos(p[1])
                 /\ Len(p[2]) \in {1, 2} /\ SoAlgarismos(p[2])
                 /\ Len(p[3]) \in {1, 2} /\ SoAlgarismos(p[3])
        a == ValorDecimal(p[1])
        m == ValorDecimal(p[2])
        d == ValorDecimal(p[3])
    IN  IF forma /\ a >= 1 /\ m \in 1..12 /\ d \in 1..DiasNoMes(a, m)
        THEN [ok |-> TRUE, data |-> [ano |-> a, mes |-> m, dia |-> d]]
        ELSE [ok |-> FALSE, data |-> [ano |-> 0, mes |-> 0, dia |-> 0]]

Pad2(n) == IF n < 10 THEN <<"0">> \o Digitos(n) ELSE Digitos(n)

\* date.strftime('%Y-%m-%d')
FormatData(d) == Digitos(d.ano) \o <<"-">> \o Pad2(d.mes) \o <<"-">> \o Pad2(d.dia)

(***************************************************************************)
(* The values the explored requests are drawn from.                        *)
(***************************************************************************)
A1 == <<"A","1">>
A2 == <<"A","2">>
P1 == <<"P","1">>
P2 == <<"P","2">>
Leite == <<"L","e","i","t","e">>
Queijo == <<"Q","u","e","i","j","o">>
Frios == <<"F","r","i","o","s">>
L1 == <<"L","1">>
L2 == <<"L","2">>
Vazio == <<>>

\* area ids a request path may name
AreaIds == {A1, A2}
\* catalog ids a form or path may name
ProdIds == {P1, P2}
\* lot codes as typed: upper case, lower case, with blanks around
LoteTextos == {L1, <<"l","1">>, <<" ","L","2"," ">>}
\* an expiry date as typed, month and day unpadded
DataBoa == <<"2","0","2","4","-","1","-","5">>
\* expiry texts strptime rejects: wrong format, a day the month lacks
DataTextosRuins == {<<"0","5","/","0","1","/","2","0","2","4">>,
                    <<"2","0","2","3","-","0","2","-","2","9">>}
\* quantities as typed: 1..MaxQtd
QtdTextos == {Digitos(n) : n \in 1..MaxQtd}
\* quantity texts that are zero, negative or no integer
QtdTextosRuins == {<<"0">>, <<"-","1">>, <<"x">>}
Destino == <<"L","o","j","a">>

\* instance ids as typed
InstanciaTextos == {Digitos(i) : i \in 1..MaxInstancias}

\* The conversions of the explored form values, computed once.
TextosInt == QtdTextos \cup QtdTextosRuins \cup InstanciaTextos \cup {Vazio}

TextosData == {DataBoa, Vazio} \cup DataTextosRuins

TextosLote == LoteTextos \cup {L1, L2, Vazio}

TabelaInt == [t \in TextosInt |-> ParseInt(t)]

TabelaData == [t \in TextosData |-> ParseData(t)]

TabelaLote == [t \in TextosLote |-> Upper(Strip(t))]

\* int(text)
Inteiro(t) == IF t \in TextosInt THEN TabelaInt[t] ELSE ParseInt(t)

\* the date the persistence layer parses out of a form's data_validade
Data(t) == IF t \in TextosData THEN TabelaData[t] ELSE ParseData(t)

\* lote.strip().upper()
Lote(t) == IF t \in TextosLote THEN TabelaLote[t] ELSE Upper(Strip(t))

(***************************************************************************)
(* State.                                                                  *)
(***************************************************************************)
VARIABLES
    areas,      \* table of areas: id -> [nome, tipo_armazenamento]
    catalogo,   \* table of catalog products: id -> nome
    produtos,   \* table of stock instances: instance id -> row
    proxId,     \* the next instance id the store assigns
    vendas,     \* the sales ledger, in insertion order
    baixas,     \* units taken out of stock by remover_produto for sales
    emVoo,      \* the sale a handler is in the middle of, if any
    session,    \* the request's Flask session
    flash,      \* the message flashed by the last request: [rota, tag]
    senhas,     \* the Credential Store's passwords: username -> password
    pagina      \* the template context the last request rendered, if any

vars == <<areas, catalogo, produtos, proxId, vendas, baixas, emVoo, session, flash,
          senhas, pagina>>

loja == <<areas, catalogo, produtos, proxId, vendas, baixas>>

SemSessao == [username |-> "", password |-> ""]

Nenhum == [passo |-> "nenhum"]

\* a request that ended in a redirect rendered no page
SemPagina == [template |-> ""]

\* the Credential Store: username -> [senha, funcao]
Usuarios == [ana |-> [senha |-> "s1", funcao |-> "gerente"],
             rui |-> [senha |-> "s2", funcao |-> "visitante"]]

\* the static role -> permissions table
Permissoes == [gerente |-> {"visualizar_armazem", "detalhes_area", "gerenciar_produtos_em_areas",
                            "registrar_venda", "gerenciar_areas", "gerenciar_catalogo_produtos",
                            "gerente"},
               visitante |-> {"visualizar_armazem", "detalhes_area"}]

\* the passwords the seeded Credential Store holds
SenhasIniciais == [u \in DOMAIN Usuarios |-> Usuarios[u].senha]

\* Usuario.verificar_senha(username, password): the user, or none
verificar_senha(username, password) ==
    username \in DOMAIN senhas /\ senhas[username] = password

\* Usuario.tem_permissao(permissao)
tem_permissao(username, permissao) == permissao \in Permissoes[Usuarios[username].funcao]

\* flash(...) followed by the redirect or render that ends the request
Responde(rota, tag) ==
    /\ flash' = [rota |-> rota, tag |-> tag]
    /\ pagina' = SemPagina
    /\ UNCHANGED <<emVoo, senhas>>

(***************************************************************************)
(* login_necessario: what the decorator decides before the view runs.      *)
(***************************************************************************)
\* the decorator trusting the session's username without verifying its password again
login_necessario_sem_verificar(permissao) ==
    IF session.username = "" \/ session.password = "" THEN "Unauthorized"
    ELSE IF permissao # "" /\ ~tem_permissao(session.username, permissao) THEN "Forbidden"
    ELSE "ok"

login_necessario(permissao) ==
    IF session.username = "" \/ session.password = "" THEN "Unauthorized"
    ELSE IF ~verificar_senha(session.username, session.password) THEN "SessaoInvalida"
    ELSE IF permissao # "" /\ ~tem_permissao(session.username, permissao) THEN "Forbidden"
    ELSE "ok"

\* the decorator's refusal: nothing of the store is touched; an invalid session is cleared
Recusa(rota, motivo) ==
    /\ session' = IF motivo = "SessaoInvalida" THEN SemSessao ELSE session
    /\ Responde(rota, motivo)
    /\ UNCHANGED loja

login(username, senha) ==
    /\ IF verificar_senha(username, senha)
       THEN /\ session' = [username |-> username, password |-> senha]
            /\ Responde("login", "ok")
       ELSE /\ session' = session
            /\ Responde("login", "Unauthorized")
    /\ UNCHANGED loja

logout ==
    /\ session' = SemSessao
    /\ Responde("logout", "ok")
    /\ UNCHANGED loja

(***************************************************************************)
(* The persistence layer behind the handlers (AreaArmazem, ProdutoLacteo,  *)
(* ProdutoCatalogo, Venda).                                                *)
(***************************************************************************)
\* area.listar_produtos(): the ids of the instances the area owns
listar_produtos(id_area) == {i \in DOMAIN produtos : produtos[i].area_id = id_area}

\* the instance of the area with this catalog product and lot that a merge lands on
instancia_do_lote(id_area, id_catalogo, lote) ==
    LET iguais == {i \in listar_produtos(id_area) :
                      produtos[i].id_catalogo_produto = id_catalogo /\ produtos[i].lote = lote}
    IN  IF iguais = {} THEN 0 ELSE CHOOSE i \in iguais : \A j \in iguais : i <= j

\* area.adicionar_produto(novo): merge into the instance of the same product and lot,
\* or insert a row under a fresh id
adicionar_produto(id_area, novo) ==
    LET alvo == instancia_do_lote(id_area, novo.id_catalogo_produto, novo.lote)
    IN  IF alvo # 0
        THEN /\ produtos[alvo].quantidade + novo.quantidade <= MaxEstoque
             /\ produtos' = [produtos EXCEPT ![alvo].quantidade = @ + novo.quantidade]
             /\ proxId' = proxId
        ELSE /\ proxId <= MaxInstancias
             /\ produtos' = produtos @@ (proxId :> [novo EXCEPT !.area_id = id_area])
             /\ proxId' = proxId + 1

\* area.remover_produto(id, quantidade) succeeds when the area owns the instance and it holds enough
pode_remover(id_area, id, quantidade) ==
    id \in listar_produtos(id_area) /\ produtos[id].quantidade >= quantidade

\* the stock table after area.remover_produto(id, quantidade)
apos_remover(id, quantidade) == [produtos EXCEPT ![id].quantidade = @ - quantidade]

\* the stock table after produto.deletar_instancia()
apos_deletar(id) == [i \in DOMAIN produtos \ {id} |-> produtos[i]]

(***************************************************************************)
(* Stock-instance handlers.                                                *)
(***************************************************************************)
\* the check of line 158 refusing one unit as well
QuantidadeRecusadaAoAdicionarUm(quantidade) == quantidade <= 1

\* line 158: the quantity an add refuses
QuantidadeRecusadaAoAdicionar(quantidade) == quantidade <= 0

\* lines 142-165 and the constructor's date parsing: the outcome of validating an add
ValidaAdicionar(id_area, form) ==
    LET quantidade == Inteiro(form.quantidade)
    IN  IF id_area \notin DOMAIN areas THEN "NotFound"
        ELSE IF ~(Presente(form.id_produto_catalogo) /\ Presente(form.quantidade)
                  /\ Presente(form.data_validade) /\ Presente(form.lote)) THEN "Validation"
        ELSE IF ~quantidade.ok THEN "Validation"
        ELSE IF QuantidadeRecusadaAoAdicionar(quantidade.val) THEN "Validation"
        ELSE IF form.id_produto_catalogo \notin DOMAIN catalogo THEN "NotFound"
        ELSE IF ~Data(form.data_validade).ok THEN "Validation"
        ELSE "ok"

\* lines 167-173: the instance built from the form
NovoProduto(form) ==
    [id_catalogo_produto |-> form.id_produto_catalogo,
     nome |-> catalogo[form.id_produto_catalogo],
     quantidade |-> Inteiro(form.quantidade).val,
     data_validade |-> Data(form.data_validade).data,
     lote |-> Lote(form.lote),
     area_id |-> Vazio]

adicionar_produto_na_area(id_area, form) ==
    LET rota == "adicionar_produto_na_area"
        aut == login_necessario("gerenciar_produtos_em_areas")
        res == ValidaAdicionar(id_area, form)
    IN  IF aut # "ok" THEN Recusa(rota, aut)
        ELSE IF res # "ok"
        THEN Responde(rota, res) /\ UNCHANGED <<loja, session>>
        ELSE /\ adicionar_produto(id_area, NovoProduto(form))
             /\ Responde(rota, "ok")
             /\ UNCHANGED <<areas, catalogo, vendas, baixas, session>>

\* the check of line 206 letting zero through
QuantidadeRecusadaAoVenderSoNegativa(quantidade) == quantidade < 0

\* line 206: the quantity a sale refuses
QuantidadeRecusadaAoVender(quantidade) == quantidade <= 0

\* the instance looked up in the whole stock table instead of the area's list
PertenceAAlgumaArea(id_area, id) == id \in DOMAIN produtos

\* line 216: the instance is among the area's instances
PertenceAArea(id_area, id) == id \in listar_produtos(id_area)

\* the comparison of line 221 turned around
EstoqueInsuficienteInvertido(id, quantidade) == produtos[id].quantidade > quantidade

\* line 221: the instance holds less than the sale asks for
EstoqueInsuficiente(id, quantidade) == produtos[id].quantidade < quantidade

\* lines 189-223: the outcome of validating a sale
ValidaVender(id_area, form) ==
    LET quantidade == Inteiro(form.quantidade_venda)
        id == Inteiro(form.id_instancia_venda)
    IN  IF id_area \notin DOMAIN areas THEN "NotFound"
        ELSE IF ~(Presente(form.id_instancia_venda) /\ Presente(form.quantidade_venda)
                  /\ Presente(form.destino_venda)) THEN "Validation"
        ELSE IF ~quantidade.ok \/ ~id.ok THEN "Validation"
        ELSE IF QuantidadeRecusadaAoVender(quantidade.val) THEN "Validation"
        ELSE IF id.val \notin DOMAIN produtos THEN "NotFound"
        ELSE IF ~PertenceAArea(id_area, id.val) THEN "WrongArea"
        ELSE IF EstoqueInsuficiente(id.val, quantidade.val) THEN "InsufficientStock"
        ELSE "ok"

\* NovaVenda recording the instance's stock instead of the quantity sold
NovaVendaQuantidadeDoEstoque(id_area, p, quantidade, destino, usuario) ==
    [id_catalogo_produto |-> p.id_catalogo_produto,
     nome |-> p.nome,
     lote |-> p.lote,
     data_validade_produto |-> FormatData(p.data_validade),
     quantidade_vendida |-> p.quantidade,
     destino |-> Strip(destino),
     area_origem_id |-> id_area,
     usuario_responsavel |-> usuario]

\* lines 228-237: the sale record, a snapshot of the instance read at line 210
NovaVenda(id_area, p, quantidade, destino, usuario) ==
    [id_catalogo_produto |-> p.id_catalogo_produto,
     nome |-> p.nome,
     lote |-> p.lote,
     data_validade_produto |-> FormatData(p.data_validade),
     quantidade_vendida |-> quantidade,
     destino |-> Strip(destino),
     area_origem_id |-> id_area,
     usuario_responsavel |-> usuario]

\* the sale record built but never handed to Venda.registrar
LivroSemRegistro(id_area, id, quantidade, destino) == vendas

\* lines 228-238: the ledger once Venda.registrar(nova_venda) has run
LivroAposVenda(id_area, id, quantidade, destino) ==
    Append(vendas, NovaVenda(id_area, produtos[id], quantidade, destino,
                             session.username))

vender_produto_da_area(id_area, form) ==
    LET rota == "vender_produto_da_area"
        aut == login_necessario("registrar_venda")
        res == ValidaVender(id_area, form)
        id == Inteiro(form.id_instancia_venda).val
        quantidade == Inteiro(form.quantidade_venda).val
    IN  IF aut # "ok" THEN Recusa(rota, aut)
        ELSE IF res # "ok"
        THEN Responde(rota, res) /\ UNCHANGED <<loja, session>>
        ELSE IF pode_remover(id_area, id, quantidade)
        THEN /\ Len(vendas) < MaxVendas
             /\ produtos' = apos_remover(id, quantidade)
             /\ baixas' = baixas + quantidade
             /\ vendas' = LivroAposVenda(id_area, id, quantidade, form.destino_venda)
             /\ Responde(rota, "ok")
             /\ UNCHANGED <<areas, catalogo, proxId, session>>
        ELSE Responde(rota, "Falha") /\ UNCHANGED <<loja, session>>

\* the check of line 409 left out
QuantidadeRecusadaAoEditarNunca(quantidade) == FALSE

\* line 409: the quantity an edit refuses
QuantidadeRecusadaAoEditar(quantidade) == quantidade < 0

\* lines 384-417 and atualizar_instancia's date parsing: the outcome of validating an edit
ValidaEditar(id_area, id, form) ==
    LET quantidade == Inteiro(form.quantidade)
    IN  IF id_area \notin DOMAIN areas THEN "NotFound"
        ELSE IF id \notin DOMAIN produtos THEN "NotFound"
        ELSE IF ~PertenceAArea(id_area, id) THEN "WrongArea"
        ELSE IF ~(Presente(form.quantidade) /\ Presente(form.data_validade) /\ Presente(form.lote))
        THEN "Validation"
        ELSE IF ~quantidade.ok THEN "Validation"
        ELSE IF QuantidadeRecusadaAoEditar(quantidade.val) THEN "Validation"
        ELSE IF ~Data(form.data_validade).ok THEN "Validation"
        ELSE "ok"

editar_produto_em_area(id_area, id, form) ==
    LET rota == "editar_produto_em_area"
        aut == login_necessario("gerenciar_produtos_em_areas")
        res == ValidaEditar(id_area, id, form)
    IN  IF aut # "ok" THEN Recusa(rota, aut)
        ELSE IF res # "ok"
        THEN Responde(rota, res) /\ UNCHANGED <<loja, session>>
        ELSE /\ Inteiro(form.quantidade).val <= MaxEstoque
             /\ produtos' = [produtos EXCEPT
                                ![id].quantidade = Inteiro(form.quantidade).val,
                                ![id].data_validade = Data(form.data_validade).data,
                                ![id].lote = Lote(form.lote)]
             /\ Responde(rota, "ok")
             /\ UNCHANGED <<areas, catalogo, proxId, vendas, baixas, session>>

\* lines 431-442: the outcome of validating a delete
ValidaExcluir(id_area, id) ==
    IF id_area \notin DOMAIN areas THEN "NotFound"
    ELSE IF id \notin DOMAIN produtos THEN "NotFound"
    ELSE IF ~PertenceAArea(id_area, id) THEN "WrongArea"
    ELSE "ok"

excluir_produto_de_area(id_area, id) ==
    LET rota == "excluir_produto_de_area"
        aut == login_necessario("gerenciar_produtos_em_areas")
        res == ValidaExcluir(id_area, id)
    IN  IF aut # "ok" THEN Recusa(rota, aut)
        ELSE IF res # "ok"
        THEN Responde(rota, res) /\ UNCHANGED <<loja, session>>
        ELSE /\ produtos' = apos_deletar(id)
             /\ Responde(rota, "ok")
             /\ UNCHANGED <<areas, catalogo, proxId, vendas, baixas, session>>

(***************************************************************************)
(* Area and catalog handlers.                                              *)
(***************************************************************************)
adicionar_area(form) ==
    LET rota == "adicionar_area"
        aut == login_necessario("gerenciar_areas")
        id == Upper(Strip(form.id_area))
    IN  IF aut # "ok" THEN Recusa(rota, aut)
        ELSE IF ~(Presente(form.id_area) /\ Presente(form.nome) /\ Presente(form.tipo_armazenamento))
        THEN Responde(rota, "Validation") /\ UNCHANGED <<loja, session>>
        ELSE IF id \in DOMAIN areas
        THEN Responde(rota, "Conflict") /\ UNCHANGED <<loja, session>>
        ELSE /\ areas' = areas @@ (id :> [nome |-> Strip(form.nome),
                                         tipo_armazenamento |-> form.tipo_armazenamento])
             /\ Responde(rota, "ok")
             /\ UNCHANGED <<catalogo, produtos, proxId, vendas, baixas, session>>

editar_area(id_area, form) ==
    LET rota == "editar_area"
        aut == login_necessario("gerenciar_areas")
    IN  IF aut # "ok" THEN Recusa(rota, aut)
        ELSE IF id_area \notin DOMAIN areas
        THEN Responde(rota, "NotFound") /\ UNCHANGED <<loja, session>>
        ELSE IF ~(Presente(form.nome) /\ Presente(form.tipo_armazenamento))
        THEN Responde(rota, "Validation") /\ UNCHANGED <<loja, session>>
        ELSE /\ areas' = [areas EXCEPT ![id_area] = [nome |-> Strip(form.nome),
                                                     tipo_armazenamento |-> form.tipo_armazenamento]]
             /\ Responde(rota, "ok")
             /\ UNCHANGED <<catalogo, produtos, proxId, vendas, baixas, session>>

\* area.deletar() refuses while the area owns stock instances
AreaEmUso(id_area) == listar_produtos(id_area) # {}

\* area.deletar(): the pair (sucesso, mensagem) it returns
deletar_area(id_area) ==
    IF AreaEmUso(id_area) THEN [sucesso |-> FALSE, mensagem |-> "InUse"]
    ELSE [sucesso |-> TRUE, mensagem |-> "ok"]

\* area.deletar(): the areas it leaves
areas_apos_deletar(id_area) ==
    IF AreaEmUso(id_area) THEN areas
    ELSE [a \in DOMAIN areas \ {id_area} |-> areas[a]]

\* the pair itself tested instead of its first component
CategoriaDoFlashDoPar(resultado) == "ok"

\* lines 311-315: the flash category chosen from sucesso
CategoriaDoFlash(resultado) ==
    IF resultado.sucesso THEN "ok" ELSE resultado.mensagem

excluir_area(id_area) ==
    LET rota == "excluir_area"
        aut == login_necessario("gerenciar_areas")
    IN  IF aut # "ok" THEN Recusa(rota, aut)
        ELSE IF id_area \notin DOMAIN areas
        THEN Responde(rota, "NotFound") /\ UNCHANGED <<loja, session>>
        ELSE /\ areas' = areas_apos_deletar(id_area)
             /\ Responde(rota, CategoriaDoFlash(deletar_area(id_area)))
             /\ UNCHANGED <<catalogo, produtos, proxId, vendas, baixas, session>>

\* ProdutoCatalogo.criar(id, nome) returns nothing when the id is taken
CatalogoTemId(id) == id \in DOMAIN catalogo

\* the id stripped but left in the case it was typed in
IdSoAparado(texto) == Strip(texto)

\* line 336: id_produto.strip().upper()
IdNormalizado(texto) == Upper(Strip(texto))

adicionar_produto_catalogo(form) ==
    LET rota == "adicionar_produto_catalogo"
        aut == login_necessario("gerenciar_catalogo_produtos")
        id == IdNormalizado(form.id_produto)
    IN  IF aut # "ok" THEN Recusa(rota, aut)
        ELSE IF ~(Presente(form.id_produto) /\ Presente(form.nome))
        THEN Responde(rota, "Validation") /\ UNCHANGED <<loja, session>>
        ELSE IF CatalogoTemId(id)
        THEN Responde(rota, "Conflict") /\ UNCHANGED <<loja, session>>
        ELSE /\ catalogo' = catalogo @@ (id :> Strip(form.nome))
             /\ Responde(rota, "ok")
             /\ UNCHANGED <<areas, produtos, proxId, vendas, baixas, session>>

editar_produto_catalogo(id_produto, form) ==
    LET rota == "editar_produto_catalogo"
        aut == login_necessario("gerenciar_catalogo_produtos")
    IN  IF aut # "ok" THEN Recusa(rota, aut)
        ELSE IF id_produto \notin DOMAIN catalogo
        THEN Responde(rota, "NotFound") /\ UNCHANGED <<loja, session>>
        ELSE IF ~Presente(form.nome)
        THEN Responde(rota, "Validation") /\ UNCHANGED <<loja, session>>
        ELSE /\ catalogo' = [catalogo EXCEPT ![id_produto] = Strip(form.nome)]
             /\ Responde(rota, "ok")
             /\ UNCHANGED <<areas, produtos, proxId, vendas, baixas, session>>

\* produto.deletar() refuses while a stock instance references the product
ProdutoEmUso(id_produto) == \E i \in DOMAIN produtos : produtos[i].id_catalogo_produto = id_produto

excluir_produto_catalogo(id_produto) ==
    LET rota == "excluir_produto_catalogo"
        aut == login_necessario("gerenciar_catalogo_produtos")
    IN  IF aut # "ok" THEN Recusa(rota, aut)
        ELSE IF id_produto \notin DOMAIN catalogo
        THEN Responde(rota, "NotFound") /\ UNCHANGED <<loja, session>>
        ELSE IF ProdutoEmUso(id_produto)
        THEN Responde(rota, "InUse") /\ UNCHANGED <<loja, session>>
        ELSE /\ catalogo' = [c \in DOMAIN catalogo \ {id_produto} |-> catalogo[c]]
             /\ Responde(rota, "ok")
             /\ UNCHANGED <<areas, produtos, proxId, vendas, baixas, session>>

(***************************************************************************)
(* The reports page.                                                       *)
(***************************************************************************)
RECURSIVE DiasAntesDoMes(_, _)
\* the days of the year that precede the first of the month
DiasAntesDoMes(a, m) == IF m = 1 THEN 0 ELSE DiasNoMes(a, m - 1) + DiasAntesDoMes(a, m - 1)

\* date.toordinal(): the day count that date subtraction, comparison and
\* date + timedelta work on
Ordinal(d) ==
    365 * (d.ano - 1) + ((d.ano - 1) \div 4) - ((d.ano - 1) \div 100) + ((d.ano - 1) \div 400)
    + DiasAntesDoMes(d.ano, d.mes) + d.dia

\* line 464
dias_alerta_antecedencia == 7

\* AreaArmazem.listar_todas(): the areas in the order the store lists them
OrdemDasAreas == <<A1, A2>>

listar_todas_areas == SelectSeq(OrdemDasAreas, LAMBDA a : a \in DOMAIN areas)

RECURSIVE EmOrdem(_)
\* the ids of a set of instances, ascending
EmOrdem(ids) ==
    IF ids = {} THEN <<>>
    ELSE LET menor == CHOOSE i \in ids : \A j \in ids : i <= j
         IN  <<menor>> \o EmOrdem(ids \ {menor})

RECURSIVE Percurso(_)
\* lines 455-456 and 469-470: the pairs <<area, instance>> the two nested loops visit
Percurso(lista_areas) ==
    IF lista_areas = <<>> THEN <<>>
    ELSE [k \in 1..Cardinality(listar_produtos(Head(lista_areas))) |->
             <<Head(lista_areas), EmOrdem(listar_produtos(Head(lista_areas)))[k]>>]
         \o Percurso(Tail(lista_areas))

RECURSIVE SomaEstoqueSoUltimo(_, _)
\* estoque_total keeping the quantity of the last instance visited instead of the sum
SomaEstoqueSoUltimo(visitas, estoque_total) ==
    IF visitas = <<>> THEN estoque_total
    ELSE LET prod == produtos[Head(visitas)[2]]
             chave == prod.id_catalogo_produto
             com_chave == IF chave \in DOMAIN estoque_total THEN estoque_total
                          ELSE estoque_total @@ (chave :> [nome |-> prod.nome,
                                                           quantidade_total |-> 0])
         IN  SomaEstoqueSoUltimo(Tail(visitas),
                                 [com_chave EXCEPT ![chave].quantidade_total = prod.quantidade])

RECURSIVE SomaEstoque(_, _)
\* lines 454-460: estoque_total after the loops have visited the given pairs
SomaEstoque(visitas, estoque_total) ==
    IF visitas = <<>> THEN estoque_total
    ELSE LET prod == produtos[Head(visitas)[2]]
             chave == prod.id_catalogo_produto
             com_chave == IF chave \in DOMAIN estoque_total THEN estoque_total
                          ELSE estoque_total @@ (chave :> [nome |-> prod.nome,
                                                           quantidade_total |-> 0])
         IN  SomaEstoque(Tail(visitas),
                         [com_chave EXCEPT ![chave].quantidade_total = @ + prod.quantidade])

\* the comparison of line 474 taking the day itself as expired
status_validade_com_o_dia(data_validade, hoje) ==
    IF Ordinal(data_validade) <= Ordinal(hoje) THEN "VENCIDO"
    ELSE IF Ordinal(data_validade) <= Ordinal(hoje) + dias_alerta_antecedencia
    THEN "PROXIMO_VENCIMENTO"
    ELSE ""

\* lines 466 and 474-477: the status of an expiry date on the day of the report
status_validade(data_validade, hoje) ==
    IF Ordinal(data_validade) < Ordinal(hoje) THEN "VENCIDO"
    ELSE IF Ordinal(data_validade) <= Ordinal(hoje) + dias_alerta_antecedencia
    THEN "PROXIMO_VENCIMENTO"
    ELSE ""

\* produto_obj.to_dict()
to_dict(id) ==
    [id |-> id,
     id_catalogo_produto |-> produtos[id].id_catalogo_produto,
     nome |-> produtos[id].nome,
     quantidade |-> produtos[id].quantidade,
     data_validade |-> FormatData(produtos[id].data_validade),
     lote |-> produtos[id].lote]

RECURSIVE Alertas(_, _)
\* lines 469-486: the alerts appended while the loops visit the given pairs
Alertas(visitas, hoje) ==
    IF visitas = <<>> THEN <<>>
    ELSE LET id_area == Head(visitas)[1]
             id == Head(visitas)[2]
             status == status_validade(produtos[id].data_validade, hoje)
         IN  (IF status = "" THEN <<>>
              ELSE <<[area_id |-> id_area,
                      nome_area |-> areas[id_area].nome,
                      produto |-> to_dict(id),
                      status_validade |-> status,
                      dias_para_vencer |->
                          Ordinal(produtos[id].data_validade) - Ordinal(hoje)]>>)
             \o Alertas(Tail(visitas), hoje)

\* the sort key with the days counted backwards
ChaveNaoDepoisInvertida(x, y) ==
    LET kx == IF x.status_validade # "VENCIDO" THEN 1 ELSE 0
        ky == IF y.status_validade # "VENCIDO" THEN 1 ELSE 0
    IN  kx < ky \/ (kx = ky /\ x.dias_para_vencer >= y.dias_para_vencer)

\* line 488: key(x) <= key(y) for the key (status_validade != "VENCIDO", dias_para_vencer)
ChaveNaoDepois(x, y) ==
    LET kx == IF x.status_validade # "VENCIDO" THEN 1 ELSE 0
        ky == IF y.status_validade # "VENCIDO" THEN 1 ELSE 0
    IN  kx < ky \/ (kx = ky /\ x.dias_para_vencer <= y.dias_para_vencer)

RECURSIVE Insere(_, _)
\* x placed after the entries of an ordered list that do not come after it
Insere(ordenada, x) ==
    IF ordenada = <<>> THEN <<x>>
    ELSE IF ChaveNaoDepois(Head(ordenada), x)
    THEN <<Head(ordenada)>> \o Insere(Tail(ordenada), x)
    ELSE <<x>> \o ordenada

RECURSIVE Ordena(_)
\* line 488: list.sort(key=...), a stable sort
Ordena(lista) ==
    IF lista = <<>> THEN <<>>
    ELSE Insere(Ordena(SubSeq(lista, 1, Len(lista) - 1)), lista[Len(lista)])

\* lines 490-494: the context handed to relatorios.html (the sales listing, ordered by
\* a timestamp the sale record takes from the clock, is left out)
ContextoRelatorios(hoje) ==
    [template |-> "relatorios.html",
     estoque_total |-> SomaEstoque(Percurso(listar_todas_areas), <<>>),
     produtos_alerta_validade |-> Ordena(Alertas(Percurso(listar_todas_areas), hoje)),
     dias_alerta |-> dias_alerta_antecedencia]

\* the reports page reads the store on the day hoje (date.today()) and renders
pagina_relatorios(hoje) ==
    LET rota == "pagina_relatorios"
        aut == login_necessario("gerente")
    IN  IF aut # "ok" THEN Recusa(rota, aut)
        ELSE /\ flash' = [rota |-> rota, tag |-> "ok"]
             /\ pagina' = ContextoRelatorios(hoje)
             /\ UNCHANGED <<loja, session, emVoo, senhas>>

(***************************************************************************)
(* The requests explored: well-formed forms, and forms with one field      *)
(* missing or malformed.                                                   *)
(***************************************************************************)
FormAdicionar(pc, q, d, l) ==
    [id_produto_catalogo |-> pc, quantidade |-> q, data_validade |-> d, lote |-> l]

FormsAdicionarRuins ==
    {FormAdicionar(P1, q, DataBoa, L1) : q \in QtdTextosRuins \cup {Vazio}}
    \cup {FormAdicionar(P1, Digitos(1), d, L1) : d \in DataTextosRuins \cup {Vazio}}
    \cup {FormAdicionar(Vazio, Digitos(1), DataBoa, L1), FormAdicionar(P1, Digitos(1), DataBoa, Vazio)}

\* adds of the given products and lots, and the malformed adds
FormsAdicionar(prods, lotes) ==
    {FormAdicionar(pc, q, DataBoa, l) : pc \in prods, q \in QtdTextos, l \in lotes}
    \cup FormsAdicionarRuins

FormVender(i, q, dest) == [id_instancia_venda |-> i, quantidade_venda |-> q, destino_venda |-> dest]

FormsVender ==
    {FormVender(i, q, Destino) : i \in InstanciaTextos, q \in QtdTextos}
    \cup {FormVender(Digitos(1), q, Destino) : q \in QtdTextosRuins \cup {Vazio}}
    \cup {FormVender(<<"x">>, Digitos(1), Destino), FormVender(Vazio, Digitos(1), Destino),
          FormVender(Digitos(1), Digitos(1), Vazio)}

FormEditar(q, d, l) == [quantidade |-> q, data_validade |-> d, lote |-> l]

FormsEditarRuins ==
    {FormEditar(q, DataBoa, L1) : q \in {<<"-","1">>, <<"x">>, Vazio}}
    \cup {FormEditar(Digitos(1), d, L1) : d \in DataTextosRuins \cup {Vazio}}
    \cup {FormEditar(Digitos(1), DataBoa, Vazio)}

\* edits to the given lots, and the malformed edits
FormsEditar(lotes) ==
    {FormEditar(q, DataBoa, l) : q \in QtdTextos \cup {<<"0">>}, l \in lotes}
    \cup FormsEditarRuins

FormArea(i, n, t) == [id_area |-> i, nome |-> n, tipo_armazenamento |-> t]

FormsArea ==
    {FormArea(i, Frios, "refrigerado") : i \in {A1, A2, <<" ","a","2">>}}
    \cup {FormArea(Vazio, Frios, "refrigerado"), FormArea(A2, Vazio, "refrigerado"),
          FormArea(A2, Frios, "")}

FormCatalogo(i, n) == [id_produto |-> i, nome |-> n]

\* catalog forms carrying the given names, and the forms with a field missing
FormsCatalogo(nomes) ==
    {FormCatalogo(i, n) : i \in {P1, P2, <<"p","2"," ">>}, n \in nomes}
    \cup {FormCatalogo(Vazio, Leite), FormCatalogo(P2, Vazio)}

FormsAdicionarP1L1 == FormsAdicionar({P1}, {L1})

FormsAdicionarL1 == FormsAdicionar({P1, P2}, {L1})

FormsAdicionarTodos == FormsAdicionar({P1, P2}, LoteTextos)

FormsEditarL1 == FormsEditar({L1})

FormsEditarTodos == FormsEditar({L1, L2})

FormsCatalogoLeite == FormsCatalogo({Leite})

FormsCatalogoTodos == FormsCatalogo({Leite, Queijo})

Instancias == 1..MaxInstancias

\* days on which the report is asked for
Hojes == {[ano |-> 2024, mes |-> 1, dia |-> 10], [ano |-> 2024, mes |-> 2, dia |-> 26]}

(***************************************************************************)
(* Spec: every handler, from the seeded store, with no session.            *)
(***************************************************************************)
Init ==
    /\ areas = (A1 :> [nome |-> Frios, tipo_armazenamento |-> "refrigerado"])
    /\ catalogo = (P1 :> Leite)
    /\ produtos = <<>>
    /\ proxId = 1
    /\ vendas = <<>>
    /\ baixas = 0
    /\ emVoo = Nenhum
    /\ session = SemSessao
    /\ flash = [rota |-> "", tag |-> ""]
    /\ senhas = SenhasIniciais
    /\ pagina = SemPagina

Next ==
    \/ \E u \in {"ana", "rui"}, s \in {"s1", "s2"} : login(u, s)
    \/ logout
    \/ \E f \in FormsAdicionarP1L1 : adicionar_produto_na_area(A1, f)
    \/ \E a \in AreaIds, f \in FormsVender : vender_produto_da_area(a, f)
    \/ \E a \in AreaIds, i \in Instancias, f \in FormsEditarL1 :
           editar_produto_em_area(a, i, f)
    \/ \E a \in AreaIds, i \in Instancias : excluir_produto_de_area(a, i)
    \/ \E f \in FormsArea : adicionar_area(f)
    \/ \E a \in AreaIds, f \in FormsArea : editar_area(a, f)
    \/ \E a \in AreaIds : excluir_area(a)
    \/ \E f \in FormsCatalogoLeite : adicionar_produto_catalogo(f)
    \/ \E c \in ProdIds, f \in FormsCatalogoLeite : editar_produto_catalogo(c, f)
    \/ \E c \in ProdIds : excluir_produto_catalogo(c)
    \/ \E h \in Hojes : pagina_relatorios(h)

Spec == Init /\ [][Next]_vars

(***************************************************************************)
(* SpecEstoque: the four stock-instance handlers, by a logged-in manager,  *)
(* over two areas.                                                         *)
(***************************************************************************)
InitEstoque ==
    /\ areas = (A1 :> [nome |-> Frios, tipo_armazenamento |-> "refrigerado"])
               @@ (A2 :> [nome |-> Frios, tipo_armazenamento |-> "refrigerado"])
    /\ catalogo = (P1 :> Leite)
    /\ produtos = <<>>
    /\ proxId = 1
    /\ vendas = <<>>
    /\ baixas = 0
    /\ emVoo = Nenhum
    /\ session = [username |-> "ana", password |-> "s1"]
    /\ flash = [rota |-> "", tag |-> ""]
    /\ senhas = SenhasIniciais
    /\ pagina = SemPagina

NextEstoque ==
    \/ \E a \in AreaIds, f \in FormsAdicionarL1 : adicionar_produto_na_area(a, f)
    \/ \E a \in AreaIds, f \in FormsVender : vender_produto_da_area(a, f)
    \/ \E a \in AreaIds, i \in Instancias, f \in FormsEditarL1 :
           editar_produto_em_area(a, i, f)
    \/ \E a \in AreaIds, i \in Instancias : excluir_produto_de_area(a, i)

SpecEstoque == InitEstoque /\ [][NextEstoque]_vars

(***************************************************************************)
(* SpecFusao: adds, edits and deletes over two areas, two catalog products *)
(* and two lots: the merge key in all its parts.                           *)
(***************************************************************************)
InitFusao ==
    /\ areas = (A1 :> [nome |-> Frios, tipo_armazenamento |-> "refrigerado"])
               @@ (A2 :> [nome |-> Frios, tipo_armazenamento |-> "refrigerado"])
    /\ catalogo = (P1 :> Leite) @@ (P2 :> Queijo)
    /\ produtos = <<>>
    /\ proxId = 1
    /\ vendas = <<>>
    /\ baixas = 0
    /\ emVoo = Nenhum
    /\ session = [username |-> "ana", password |-> "s1"]
    /\ flash = [rota |-> "", tag |-> ""]
    /\ senhas = SenhasIniciais
    /\ pagina = SemPagina

NextFusao ==
    \/ \E a \in AreaIds, f \in FormsAdicionarTodos : adicionar_produto_na_area(a, f)
    \/ \E a \in AreaIds, i \in Instancias, f \in FormsEditarTodos :
           editar_produto_em_area(a, i, f)
    \/ \E a \in AreaIds, i \in Instancias : excluir_produto_de_area(a, i)

SpecFusao == InitFusao /\ [][NextFusao]_vars

(***************************************************************************)
(* SpecCatalogo: the catalog handlers under two product names, with adds   *)
(* and deletes that put the products in and out of use.                    *)
(***************************************************************************)
NextCatalogo ==
    \/ \E f \in FormsAdicionarL1 : adicionar_produto_na_area(A1, f)
    \/ \E i \in Instancias : excluir_produto_de_area(A1, i)
    \/ \E f \in FormsCatalogoTodos : adicionar_produto_catalogo(f)
    \/ \E c \in ProdIds, f \in FormsCatalogoTodos : editar_produto_catalogo(c, f)
    \/ \E c \in ProdIds : excluir_produto_catalogo(c)

SpecCatalogo == InitEstoque /\ [][NextCatalogo]_vars

(***************************************************************************)
(* SpecPassos: the sale handler one persistence call at a time.  Line 210  *)
(* reads the instance, line 225 commits the removal, line 238 commits the  *)
(* sale record; other requests run in between, and the second commit may   *)
(* not happen (Venda.registrar raises into the except of line 245, or the  *)
(* process stops).                                                         *)
(***************************************************************************)
\* lines 189-223: the request is validated against the instance read at line 210
vender_valida(id_area, form) ==
    /\ emVoo = Nenhum
    /\ Len(vendas) < MaxVendas
    /\ baixas + Inteiro(form.quantidade_venda).val <= MaxBaixas
    /\ login_necessario("registrar_venda") = "ok"
    /\ ValidaVender(id_area, form) = "ok"
    /\ emVoo' = [passo |-> "validado",
                 id_area |-> id_area,
                 id |-> Inteiro(form.id_instancia_venda).val,
                 quantidade |-> Inteiro(form.quantidade_venda).val,
                 destino |-> form.destino_venda,
                 produto |-> produtos[Inteiro(form.id_instancia_venda).val],
                 usuario |-> session.username]
    /\ UNCHANGED <<loja, session, flash, senhas, pagina>>

\* line 225: area.remover_produto commits the removal, or reports failure (line 241)
vender_remove ==
    /\ emVoo # Nenhum
    /\ emVoo.passo = "validado"
    /\ IF pode_remover(emVoo.id_area, emVoo.id, emVoo.quantidade)
       THEN /\ produtos' = apos_remover(emVoo.id, emVoo.quantidade)
            /\ baixas' = baixas + emVoo.quantidade
            /\ emVoo' = [emVoo EXCEPT !.passo = "removido"]
            /\ UNCHANGED <<areas, catalogo, proxId, vendas, session, flash, senhas, pagina>>
       ELSE /\ emVoo' = Nenhum
            /\ flash' = [rota |-> "vender_produto_da_area", tag |-> "Falha"]
            /\ UNCHANGED <<loja, session, senhas, pagina>>

\* lines 228-239: Venda.registrar commits the sale record
vender_registra ==
    /\ emVoo # Nenhum
    /\ emVoo.passo = "removido"
    /\ vendas' = Append(vendas, NovaVenda(emVoo.id_area, emVoo.produto, emVoo.quantidade,
                                          emVoo.destino, emVoo.usuario))
    /\ emVoo' = Nenhum
    /\ flash' = [rota |-> "vender_produto_da_area", tag |-> "ok"]
    /\ UNCHANGED <<areas, catalogo, produtos, proxId, baixas, session, senhas, pagina>>

\* lines 245-247: Venda.registrar raises after the removal was committed; the handler
\* flashes an error and returns, and nothing undoes the removal
vender_registra_falha ==
    /\ emVoo # Nenhum
    /\ emVoo.passo = "removido"
    /\ emVoo' = Nenhum
    /\ flash' = [rota |-> "vender_produto_da_area", tag |-> "Falha"]
    /\ UNCHANGED <<loja, session, senhas, pagina>>

NextPassos ==
    \/ \E f \in FormsAdicionarP1L1 : adicionar_produto_na_area(A1, f)
    \/ \E i \in Instancias, f \in FormsEditarL1 : editar_produto_em_area(A1, i, f)
    \/ \E a \in AreaIds, f \in FormsVender : vender_valida(a, f)
    \/ vender_remove
    \/ vender_registra
    \/ vender_registra_falha

SpecPassos == InitEstoque /\ [][NextPassos]_vars

(***************************************************************************)
(* SpecAcesso: every state-changing handler behind login_necessario, with  *)
(* logins, logouts and a Credential Store whose passwords change while a   *)
(* session that stored the old one is still around.                        *)
(***************************************************************************)
\* the Credential Store replaces a user's password; no request of the application is
\* involved, and the sessions that stored the old password stay as they are
trocar_senha(username, senha) ==
    /\ senhas' = [senhas EXCEPT ![username] = senha]
    /\ UNCHANGED <<loja, emVoo, session, flash, pagina>>

SenhaTextos == {"s1", "s2"}

FormsAcessoAdicionar == {FormAdicionar(P1, Digitos(1), DataBoa, L1)}

FormsAcessoVender == {FormVender(Digitos(1), Digitos(1), Destino)}

FormsAcessoEditar == {FormEditar(Digitos(2), DataBoa, L1)}

FormsAcessoArea == {FormArea(A2, Frios, "seco")}

FormsAcessoCatalogo == {FormCatalogo(P2, Leite)}

NextAcesso ==
    \/ \E u \in DOMAIN Usuarios, s \in SenhaTextos : login(u, s)
    \/ logout
    \/ \E u \in DOMAIN Usuarios, s \in SenhaTextos : trocar_senha(u, s)
    \/ \E f \in FormsAcessoAdicionar : adicionar_produto_na_area(A1, f)
    \/ \E f \in FormsAcessoVender : vender_produto_da_area(A1, f)
    \/ \E f \in FormsAcessoEditar : editar_produto_em_area(A1, 1, f)
    \/ excluir_produto_de_area(A1, 1)
    \/ \E f \in FormsAcessoArea : adicionar_area(f)
    \/ \E f \in FormsAcessoArea : editar_area(A2, f)
    \/ excluir_area(A2)
    \/ \E f \in FormsAcessoCatalogo : adicionar_produto_catalogo(f)
    \/ \E f \in FormsAcessoCatalogo : editar_produto_catalogo(P2, f)
    \/ excluir_produto_catalogo(P2)

SpecAcesso == Init /\ [][NextAcesso]_vars

(***************************************************************************)
(* SpecRelatorios: the reports page asked by the manager, on two days,     *)
(* over stores whose instances expire before, on and after the day and the *)
(* end of the alert window, in two areas and of two catalog products.      *)
(***************************************************************************)
Dia(a, m, d) == [ano |-> a, mes |-> m, dia |-> d]

LinhaRelatorio(a, pc, q, d) ==
    [id_catalogo_produto |-> pc,
     nome |-> IF pc = P1 THEN Leite ELSE Queijo,
     quantidade |-> q,
     data_validade |-> d,
     lote |-> Vazio,
     area_id |-> a]

\* rows an add or an edit of 2024 could have left in the stock table
LinhasRelatorio ==
    {LinhaRelatorio(A1, P1, 1, Dia(2024, 1, 5)),
     LinhaRelatorio(A2, P1, 2, Dia(2024, 1, 5)),
     LinhaRelatorio(A1, P2, 1, Dia(2024, 1, 9)),
     LinhaRelatorio(A2, P1, 0, Dia(2024, 1, 10)),
     LinhaRelatorio(A1, P1, 2, Dia(2024, 1, 15)),
     LinhaRelatorio(A2, P2, 1, Dia(2024, 1, 17)),
     LinhaRelatorio(A1, P1, 1, Dia(2024, 1, 18)),
     LinhaRelatorio(A2, P2, 2, Dia(2024, 2, 1)),
     LinhaRelatorio(A1, P2, 1, Dia(2024, 3, 4)),
     LinhaRelatorio(A2, P1, 3, Dia(2024, 3, 5))}

InitRelatorios ==
    /\ areas = (A1 :> [nome |-> Frios, tipo_armazenamento |-> "refrigerado"])
               @@ (A2 :> [nome |-> Frios, tipo_armazenamento |-> "refrigerado"])
    /\ catalogo = (P1 :> Leite) @@ (P2 :> Queijo)
    /\ \E n \in 0..MaxRelatorio :
          /\ proxId = n + 1
          /\ \E linhas \in [1..n -> LinhasRelatorio] :
                produtos = [i \in 1..n |-> [linhas[i] EXCEPT !.lote = <<"L">> \o Digitos(i)]]
    /\ vendas = <<>>
    /\ baixas = 0
    /\ emVoo = Nenhum
    /\ session = [username |-> "ana", password |-> "s1"]
    /\ flash = [rota |-> "", tag |-> ""]
    /\ senhas = SenhasIniciais
    /\ pagina = SemPagina

NextRelatorios == \E h \in Hojes : pagina_relatorios(h)

SpecRelatorios == InitRelatorios /\ [][NextRelatorios]_vars

(***************************************************************************)
(* Properties.                                                             *)
(***************************************************************************)
\* a sale form whose fields are all present and whose numbers are integers
VendaBemFormada(f) ==
    /\ Presente(f.id_instancia_venda) /\ Presente(f.quantidade_venda) /\ Presente(f.destino_venda)
    /\ Inteiro(f.id_instancia_venda).ok /\ Inteiro(f.quantidade_venda).ok

\* C1: a sale of q units of an instance of the requested area, 0 < q <= its quantity,
\* takes exactly q from that instance, leaves every other instance's quantity alone and
\* appends exactly one sale record, whose quantidade_vendida is q.
C1_VendaBaixaERegistra ==
    [][\A a \in AreaIds, f \in FormsVender :
          LET id == Inteiro(f.id_instancia_venda).val
              q == Inteiro(f.quantidade_venda).val
          IN  (/\ flash'.rota = "vender_produto_da_area"
               /\ VendaBemFormada(f)
               /\ a \in DOMAIN areas
               /\ id \in DOMAIN produtos
               /\ produtos[id].area_id = a
               /\ 0 < q /\ q <= produtos[id].quantidade
               /\ vender_produto_da_area(a, f))
              => /\ DOMAIN produtos' = DOMAIN produtos
                 /\ produtos'[id].quantidade = produtos[id].quantidade - q
                 /\ \A j \in DOMAIN produtos \ {id} : produtos'[j].quantidade = produtos[j].quantidade
                 /\ Len(vendas') = Len(vendas) + 1
                 /\ SubSeq(vendas', 1, Len(vendas)) = vendas
                 /\ vendas'[Len(vendas')].quantidade_vendida = q]_vars

\* a sale went through while a second instance was in stock
C1_Witness ==
    /\ flash = [rota |-> "vender_produto_da_area", tag |-> "ok"]
    /\ Len(vendas) = 1
    /\ Cardinality(DOMAIN produtos) = 2
    /\ \E i \in DOMAIN produtos : produtos[i].quantidade = 1 /\ vendas[1].quantidade_vendida = 1

\* C2: a sale asking for more than the instance holds is refused as InsufficientStock;
\* the stock table and the ledger stay as they were.
C2_VendaAlemDoEstoque ==
    [][\A a \in AreaIds, f \in FormsVender :
          LET id == Inteiro(f.id_instancia_venda).val
              q == Inteiro(f.quantidade_venda).val
          IN  (/\ flash'.rota = "vender_produto_da_area"
               /\ VendaBemFormada(f)
               /\ a \in DOMAIN areas
               /\ id \in DOMAIN produtos
               /\ produtos[id].area_id = a
               /\ q > produtos[id].quantidade
               /\ vender_produto_da_area(a, f))
              => /\ flash'.tag = "InsufficientStock"
                 /\ produtos' = produtos
                 /\ vendas' = vendas]_vars

\* a sale was refused for lack of stock, with a record already in the ledger
C2_Witness ==
    /\ flash = [rota |-> "vender_produto_da_area", tag |-> "InsufficientStock"]
    /\ Len(vendas) = 1
    /\ \E i \in DOMAIN produtos : produtos[i].quantidade = 1

\* an add form whose fields are all present, with a positive integer quantity, a date
\* that parses and a product of the catalog
AdicaoBemFormada(f) ==
    /\ Presente(f.id_produto_catalogo) /\ Presente(f.quantidade)
    /\ Presente(f.data_validade) /\ Presente(f.lote)
    /\ Inteiro(f.quantidade).ok /\ Inteiro(f.quantidade).val > 0
    /\ Data(f.data_validade).ok
    /\ f.id_produto_catalogo \in DOMAIN catalogo

\* the instances of a stock table with the given area, catalog product and lot
DaChave(tabela, a, pc, lote) ==
    {i \in DOMAIN tabela : /\ tabela[i].area_id = a
                           /\ tabela[i].id_catalogo_produto = pc
                           /\ tabela[i].lote = lote}

\* C3: an add of q units for an (area, product, lot) that has no instance creates exactly
\* one instance holding q; an add for an (area, product, lot) that has one instance leaves
\* that one instance, holding q more, and creates no row. So two adds of q1 and q2 for the
\* same (area, product, lot), starting with none, leave one instance holding q1 + q2.
C3_AdicionarFunde ==
    [][\A a \in AreaIds, f \in FormsAdicionarTodos :
          LET q == Inteiro(f.quantidade).val
              antes == DaChave(produtos, a, f.id_produto_catalogo, Lote(f.lote))
              depois == DaChave(produtos', a, f.id_produto_catalogo, Lote(f.lote))
          IN  (/\ flash'.rota = "adicionar_produto_na_area"
               /\ AdicaoBemFormada(f)
               /\ a \in DOMAIN areas
               /\ Cardinality(antes) <= 1
               /\ adicionar_produto_na_area(a, f))
              => /\ Cardinality(depois) = 1
                 /\ antes \subseteq depois
                 /\ \A i \in depois :
                       produtos'[i].quantidade = (IF i \in antes THEN produtos[i].quantidade ELSE 0) + q
                 /\ Cardinality(DOMAIN produtos') =
                       Cardinality(DOMAIN produtos) + (IF antes = {} THEN 1 ELSE 0)
                 /\ \A j \in DOMAIN produtos \ antes : produtos'[j] = produtos[j]]_vars

\* the only instance ever created holds more than one form can carry: adds were merged
C3_Witness ==
    /\ flash = [rota |-> "adicionar_produto_na_area", tag |-> "ok"]
    /\ proxId = 2
    /\ 1 \in DOMAIN produtos
    /\ produtos[1].quantidade = MaxQtd + 1

\* C4: every stock instance has a quantity >= 0, whatever adds, sales, edits and deletes
\* were accepted or refused.
C4_QuantidadeNaoNegativa == \A i \in DOMAIN produtos : produtos[i].quantidade >= 0

\* a sale took the last units of an instance
C4_Witness ==
    /\ flash = [rota |-> "vender_produto_da_area", tag |-> "ok"]
    /\ \E i \in DOMAIN produtos : produtos[i].quantidade = 0

RECURSIVE SomaVendida(_)
\* the units the ledger's records account for
SomaVendida(livro) ==
    IF livro = <<>> THEN 0 ELSE Head(livro).quantidade_vendida + SomaVendida(Tail(livro))

\* C5: check, removal and sale record are one transaction: once no sale is in the middle
\* of its handler, the units taken out of stock for sales are the units the ledger records.
C5_VendaAtomica == emVoo = Nenhum => baixas = SomaVendida(vendas)

\* C6: the ledger is append-only. Every step keeps the records it held, in their order;
\* a sale that answers with success adds exactly one record, and no other step of any
\* handler adds, changes or removes one.
C6_LivroSoCresce ==
    [][/\ Len(vendas') >= Len(vendas)
       /\ SubSeq(vendas', 1, Len(vendas)) = vendas
       /\ IF flash' = [rota |-> "vender_produto_da_area", tag |-> "ok"]
          THEN Len(vendas') = Len(vendas) + 1
          ELSE vendas' = vendas]_vars

\* the ledger holds two records and outlived the deletion of an instance
C6_Witness ==
    /\ Len(vendas) = 2
    /\ flash = [rota |-> "excluir_produto_de_area", tag |-> "ok"]

\* an edit form whose fields are all present, with a non-negative integer quantity and a
\* date that parses
EdicaoBemFormada(f) ==
    /\ Presente(f.quantidade) /\ Presente(f.data_validade) /\ Presente(f.lote)
    /\ Inteiro(f.quantidade).ok /\ Inteiro(f.quantidade).val >= 0
    /\ Data(f.data_validade).ok

\* C7: a sale (of a well-formed form with a positive quantity), an edit or a delete that
\* names an existing instance through an existing area that does not own it is refused as
\* WrongArea; the stock table and the ledger stay as they were.
C7_InstanciaDeOutraArea ==
    [][/\ flash'.rota = "vender_produto_da_area" =>
             \A a \in AreaIds, f \in FormsVender :
                LET id == Inteiro(f.id_instancia_venda).val
                IN  (/\ VendaBemFormada(f)
                     /\ Inteiro(f.quantidade_venda).val > 0
                     /\ a \in DOMAIN areas
                     /\ id \in DOMAIN produtos
                     /\ produtos[id].area_id # a
                     /\ vender_produto_da_area(a, f))
                    => /\ flash'.tag = "WrongArea"
                       /\ produtos' = produtos
                       /\ vendas' = vendas
       /\ flash'.rota = "editar_produto_em_area" =>
             \A a \in AreaIds, id \in Instancias, f \in FormsEditarL1 :
                (/\ a \in DOMAIN areas
                 /\ id \in DOMAIN produtos
                 /\ produtos[id].area_id # a
                 /\ editar_produto_em_area(a, id, f))
                => /\ flash'.tag = "WrongArea"
                   /\ produtos' = produtos
                   /\ vendas' = vendas
       /\ flash'.rota = "excluir_produto_de_area" =>
             \A a \in AreaIds, id \in Instancias :
                (/\ a \in DOMAIN areas
                 /\ id \in DOMAIN produtos
                 /\ produtos[id].area_id # a
                 /\ excluir_produto_de_area(a, id))
                => /\ flash'.tag = "WrongArea"
                   /\ produtos' = produtos
                   /\ vendas' = vendas]_vars

\* a request reached an instance through the other area and was refused, the instance
\* still in stock
C7_Witness ==
    /\ flash.tag = "WrongArea"
    /\ flash.rota \in {"vender_produto_da_area", "editar_produto_em_area",
                       "excluir_produto_de_area"}
    /\ \E i \in DOMAIN produtos : produtos[i].quantidade > 0

\* C8: an add, a sale or an edit whose form fails validation (a field missing, a quantity
\* that is no integer, a quantity <= 0 on add or sale, a quantity < 0 on edit, a date
\* that does not parse, a product the catalog does not have) leaves areas, catalog,
\* stock table and ledger exactly as they were.
C8_ValidacaoNaoAltera ==
    [][/\ flash'.rota = "adicionar_produto_na_area" =>
             \A a \in AreaIds, f \in FormsAdicionarL1 :
                (~AdicaoBemFormada(f) /\ adicionar_produto_na_area(a, f))
                => UNCHANGED <<areas, catalogo, produtos, proxId, vendas>>
       /\ flash'.rota = "vender_produto_da_area" =>
             \A a \in AreaIds, f \in FormsVender :
                (/\ (~VendaBemFormada(f) \/ Inteiro(f.quantidade_venda).val <= 0)
                 /\ vender_produto_da_area(a, f))
                => UNCHANGED <<areas, catalogo, produtos, proxId, vendas>>
       /\ flash'.rota = "editar_produto_em_area" =>
             \A a \in AreaIds, id \in Instancias, f \in FormsEditarL1 :
                (~EdicaoBemFormada(f) /\ editar_produto_em_area(a, id, f))
                => UNCHANGED <<areas, catalogo, produtos, proxId, vendas>>]_vars

\* a sale was refused by validation with stock on hand and a record in the ledger
C8_Witness ==
    /\ flash = [rota |-> "vender_produto_da_area", tag |-> "Validation"]
    /\ Len(vendas) >= 1
    /\ \E i \in DOMAIN produtos : produtos[i].quantidade > 0

\* C9: deleting an area that still owns a stock instance, asked by a user allowed to
\* manage areas, is refused as InUse; the area and its instances stay as they were.
C9_AreaEmUsoNaoExclui ==
    [][\A a \in AreaIds :
          (/\ flash'.rota = "excluir_area"
           /\ login_necessario("gerenciar_areas") = "ok"
           /\ a \in DOMAIN areas
           /\ \E i \in DOMAIN produtos : produtos[i].area_id = a
           /\ excluir_area(a))
          => /\ flash'.tag = "InUse"
             /\ areas' = areas
             /\ produtos' = produtos]_vars

\* the deletion of an area was refused while it owned an instance
C9_Witness ==
    /\ flash = [rota |-> "excluir_area", tag |-> "InUse"]
    /\ \E i \in DOMAIN produtos : produtos[i].area_id \in DOMAIN areas

\* C10: creating a catalog product whose id, stripped and upper-cased as the handler
\* stores it, is already in the catalog is refused as Conflict; the catalog stays as it
\* was.
C10_IdDeCatalogoRepetido ==
    [][\A f \in FormsCatalogoTodos :
          (/\ flash'.rota = "adicionar_produto_catalogo"
           /\ Presente(f.id_produto) /\ Presente(f.nome)
           /\ Upper(Strip(f.id_produto)) \in DOMAIN catalogo
           /\ adicionar_produto_catalogo(f))
          => /\ flash'.tag = "Conflict"
             /\ catalogo' = catalogo]_vars

\* a creation was refused as a duplicate after a second product had been created
C10_Witness ==
    /\ flash = [rota |-> "adicionar_produto_catalogo", tag |-> "Conflict"]
    /\ Cardinality(DOMAIN catalogo) = 2

\* the session's stored credentials verify against the Credential Store and the user's
\* role has the permission
Autorizado(permissao) ==
    /\ session.username \in DOMAIN senhas
    /\ session.password # ""
    /\ senhas[session.username] = session.password
    /\ permissao \in Permissoes[Usuarios[session.username].funcao]

\* the session stores credentials and they do not verify
SessaoNaoVerifica ==
    /\ session.username # ""
    /\ session.password # ""
    /\ ~(session.username \in DOMAIN senhas /\ senhas[session.username] = session.password)

\* the request was turned away: the store is as it was, and a session that does not
\* verify is gone
Rejeitado ==
    /\ flash'.tag \in {"Unauthorized", "SessaoInvalida", "Forbidden"}
    /\ UNCHANGED <<areas, catalogo, produtos, proxId, vendas>>
    /\ SessaoNaoVerifica => session' = SemSessao

\* C11: an add, sale, edit or delete of a stock instance, and a creation, edit or deletion
\* of an area or a catalog product, asked without a session whose stored credentials
\* verify and whose role has the handler's permission, is turned away as Unauthorized or
\* Forbidden with the store unchanged; a session that fails verification is cleared.
C11_SoAutorizadoAltera ==
    [][/\ flash'.rota = "adicionar_produto_na_area" =>
             \A f \in FormsAcessoAdicionar :
                (~Autorizado("gerenciar_produtos_em_areas") /\ adicionar_produto_na_area(A1, f))
                => Rejeitado
       /\ flash'.rota = "vender_produto_da_area" =>
             \A f \in FormsAcessoVender :
                (~Autorizado("registrar_venda") /\ vender_produto_da_area(A1, f))
                => Rejeitado
       /\ flash'.rota = "editar_produto_em_area" =>
             \A f \in FormsAcessoEditar :
                (~Autorizado("gerenciar_produtos_em_areas") /\ editar_produto_em_area(A1, 1, f))
                => Rejeitado
       /\ (flash'.rota = "excluir_produto_de_area"
           /\ ~Autorizado("gerenciar_produtos_em_areas")
           /\ excluir_produto_de_area(A1, 1))
          => Rejeitado
       /\ flash'.rota = "adicionar_area" =>
             \A f \in FormsAcessoArea :
                (~Autorizado("gerenciar_areas") /\ adicionar_area(f)) => Rejeitado
       /\ flash'.rota = "editar_area" =>
             \A f \in FormsAcessoArea :
                (~Autorizado("gerenciar_areas") /\ editar_area(A2, f)) => Rejeitado
       /\ (flash'.rota = "excluir_area"
           /\ ~Autorizado("gerenciar_areas")
           /\ excluir_area(A2))
          => Rejeitado
       /\ flash'.rota = "adicionar_produto_catalogo" =>
             \A f \in FormsAcessoCatalogo :
                (~Autorizado("gerenciar_catalogo_produtos") /\ adicionar_produto_catalogo(f))
                => Rejeitado
       /\ flash'.rota = "editar_produto_catalogo" =>
             \A f \in FormsAcessoCatalogo :
                (~Autorizado("gerenciar_catalogo_produtos") /\ editar_produto_catalogo(P2, f))
                => Rejeitado
       /\ (flash'.rota = "excluir_produto_catalogo"
           /\ ~Autorizado("gerenciar_catalogo_produtos")
           /\ excluir_produto_catalogo(P2))
          => Rejeitado]_vars

\* a request on the stock came with a session whose password the Credential Store no
\* longer holds: it was turned away, the session cleared and the stock left in place
C11_Witness ==
    /\ flash.tag = "SessaoInvalida"
    /\ flash.rota \in {"adicionar_produto_na_area", "vender_produto_da_area",
                       "editar_produto_em_area", "excluir_produto_de_area"}
    /\ session = SemSessao
    /\ senhas # SenhasIniciais
    /\ \E i \in DOMAIN produtos : produtos[i].quantidade > 0

\* the calendar day after d
Amanha(d) ==
    IF d.dia < DiasNoMes(d.ano, d.mes) THEN [d EXCEPT !.dia = @ + 1]
    ELSE IF d.mes < 12 THEN [ano |-> d.ano, mes |-> d.mes + 1, dia |-> 1]
    ELSE [ano |-> d.ano + 1, mes |-> 1, dia |-> 1]

\* day a comes before day b in the calendar
DataAntes(a, b) ==
    \/ a.ano < b.ano
    \/ a.ano = b.ano /\ a.mes < b.mes
    \/ a.ano = b.ano /\ a.mes = b.mes /\ a.dia < b.dia

RECURSIVE DiasAte(_, _)
\* the number of days from day a forward to day b, a not after b
DiasAte(a, b) == IF a = b THEN 0 ELSE 1 + DiasAte(Amanha(a), b)

\* daysUntilExpiry: negative once the expiry date is past
DiasParaVencer(validade, hoje) ==
    IF DataAntes(validade, hoje) THEN 0 - DiasAte(validade, hoje) ELSE DiasAte(hoje, validade)

RECURSIVE DiasDepois(_, _)
\* the day n days after d
DiasDepois(d, n) == IF n = 0 THEN d ELSE DiasDepois(Amanha(d), n - 1)

\* C12: on the reports page asked on day hoje, an instance has an alert exactly when its
\* expiry date is not after hoje + 7 days, and then exactly one; the alert is VENCIDO
\* exactly when the expiry date is before hoje and PROXIMO_VENCIMENTO otherwise, and its
\* dias_para_vencer is the signed number of days from hoje to the expiry date, 0 for an
\* instance expiring on hoje itself.
C12_AlertasDeValidade ==
    [][\A h \in Hojes :
          (flash'.rota = "pagina_relatorios"
           /\ login_necessario("gerente") = "ok"
           /\ pagina_relatorios(h))
          => LET alertas == pagina'.produtos_alerta_validade
                 limite == DiasDepois(h, 7)
                 dentro == {i \in DOMAIN produtos : ~DataAntes(limite, produtos[i].data_validade)}
             IN  /\ Len(alertas) = Cardinality(dentro)
                 /\ {alertas[k].produto.id : k \in 1..Len(alertas)} = dentro
                 /\ \A k \in 1..Len(alertas) :
                       LET validade == produtos[alertas[k].produto.id].data_validade
                       IN  /\ alertas[k].status_validade =
                                 IF DataAntes(validade, h) THEN "VENCIDO"
                                 ELSE "PROXIMO_VENCIMENTO"
                           /\ alertas[k].dias_para_vencer = DiasParaVencer(validade, h)]_vars

\* a report with an expired instance, one expiring on the day of the report and one left out
C12_Witness ==
    /\ pagina.template = "relatorios.html"
    /\ Len(pagina.produtos_alerta_validade) = 2
    /\ Cardinality(DOMAIN produtos) = 3
    /\ pagina.produtos_alerta_validade[1].status_validade = "VENCIDO"
    /\ pagina.produtos_alerta_validade[2].status_validade = "PROXIMO_VENCIMENTO"
    /\ pagina.produtos_alerta_validade[2].dias_para_vencer = 0

\* C13: on the reports page every VENCIDO alert comes before every PROXIMO_VENCIMENTO
\* alert, and alerts of the same status are in ascending order of dias_para_vencer, so
\* the instance expired for longest comes first.
C13_AlertasOrdenados ==
    pagina.template = "relatorios.html" =>
        LET alertas == pagina.produtos_alerta_validade
        IN  \A j, k \in 1..Len(alertas) :
               j < k =>
                  /\ alertas[k].status_validade = "VENCIDO"
                        => alertas[j].status_validade = "VENCIDO"
                  /\ alertas[j].status_validade = alertas[k].status_validade
                        => alertas[j].dias_para_vencer <= alertas[k].dias_para_vencer

\* a report of three alerts: two expired for different lengths of time, then one upcoming
\* whose instance the loops visited first
C13_Witness ==
    /\ pagina.template = "relatorios.html"
    /\ Len(pagina.produtos_alerta_validade) = 3
    /\ pagina.produtos_alerta_validade[1].status_validade = "VENCIDO"
    /\ pagina.produtos_alerta_validade[2].status_validade = "VENCIDO"
    /\ pagina.produtos_alerta_validade[1].dias_para_vencer
          < pagina.produtos_alerta_validade[2].dias_para_vencer
    /\ pagina.produtos_alerta_validade[3].status_validade = "PROXIMO_VENCIMENTO"
    /\ pagina.produtos_alerta_validade[3].produto.id = 1
    /\ pagina.produtos_alerta_validade[3].area_id = A1

RECURSIVE SomaDasQuantidades(_)
\* the sum of the quantities of a set of instances
SomaDasQuantidades(ids) ==
    IF ids = {} THEN 0
    ELSE LET i == CHOOSE i \in ids : TRUE
         IN  produtos[i].quantidade + SomaDasQuantidades(ids \ {i})

\* C14: the reports page's estoque_total has an entry exactly for the catalog products
\* that some instance refers to, each with the sum of the quantities of all the
\* instances of that product over all areas; rendering the page leaves areas, catalog,
\* instances and sale records as they were.
C14_EstoqueTotalPorProduto ==
    [][\A h \in Hojes :
          (flash'.rota = "pagina_relatorios"
           /\ login_necessario("gerente") = "ok"
           /\ pagina_relatorios(h))
          => LET total == pagina'.estoque_total
             IN  /\ DOMAIN total = {produtos[i].id_catalogo_produto : i \in DOMAIN produtos}
                 /\ \A pc \in DOMAIN total :
                       total[pc].quantidade_total =
                          SomaDasQuantidades({i \in DOMAIN produtos :
                                                 produtos[i].id_catalogo_produto = pc})
                 /\ UNCHANGED <<areas, catalogo, produtos, proxId, vendas>>]_vars

\* a report whose total for a product adds up instances of both areas, with no entry for
\* the product no instance refers to
C14_Witness ==
    /\ pagina.template = "relatorios.html"
    /\ DOMAIN pagina.estoque_total = {P1}
    /\ pagina.estoque_total[P1].quantidade_total = 5
    /\ \E i, j \in DOMAIN produtos :
          /\ produtos[i].area_id = A1 /\ produtos[j].area_id = A2
          /\ produtos[i].quantidade > 0 /\ produtos[j].quantidade > 0

\* C15: no area holds two distinct stock instances with the same catalog product and the
\* same lot code, whatever adds, edits and deletes were accepted.
C15_ChaveDeFusaoUnica ==
    \A i, j \in DOMAIN produtos :
       (/\ produtos[i].area_id = produtos[j].area_id
        /\ produtos[i].id_catalogo_produto = produtos[j].id_catalogo_produto
        /\ produtos[i].lote = produtos[j].lote)
       => i = j

====
